---- MODULE Spec2Model ----
(***************************************************************************)
(* Staking reward accrual and DAO voting of the AurumFox backend           *)
(* (backend/routes/staking.js, backend/routes/dao.js and the Mongoose      *)
(* models StakingUser and DaoProposal).                                    *)
(*                                                                         *)
(* Time: one unit of the model's clock is one week (7 * 86 400 000 ms),    *)
(* the length of the voting window; every Date.now() / new Date() of the   *)
(* code is a read of `clock`.  Date.now() is the wall clock, so it may     *)
(* also step backwards (ClockBack).                                        *)
(*                                                                         *)
(* Amounts: stakedAmount is a whole number of AFOX.  rewards is kept as a  *)
(* whole number of 1/RewardScale AFOX, the unit in which                   *)
(* stakedAmount * (STAKING_APR / 365) * days is exact for whole weeks.     *)
(*                                                                         *)
(* Store: every handler is an async function; between an `await` and its   *)
(* continuation other handlers run.  doc.save() of Mongoose first runs     *)
(* the schema validators on the document (the schemas do not set           *)
(* validateModifiedOnly), then sends an insert for a new document or, for  *)
(* a loaded one, an update holding only the paths that were modified       *)
(* ($set for scalars, $push for Array.push).                               *)
(***************************************************************************)
EXTENDS Integers, Sequences, FiniteSets, Bags, TLC

\* ------------------------------------------------------------------ bounds
MaxClock == 1
NumDaoReqs == 2
NumStakeReqs == 2
MaxProposals == 1
MaxStake == 3
MaxRewardUnits == 4
MaxNfts == 1
NumNftReqs == 2

\* --------------------------------------------------------------- constants
STAKING_APR_PERCENT == 10
DAYS_PER_YEAR == 365
VOTING_WINDOW_DAYS == 7
TITLE_MIN == 5
TITLE_MAX == 200
DESC_MIN == 20
DESC_MAX == 5000
WALLET_MIN_CHARS == 32
WALLET_MAX_CHARS == 44

\* one clock unit is the voting window
DAYS_PER_TICK == VOTING_WINDOW_DAYS
RewardScale == 100 * DAYS_PER_YEAR

\* clock      the wall clock
\* proposals  the DaoProposal collection, by _id
\* dreq       the /proposals and /vote requests in flight (a bag: handlers
\*            are anonymous)
\* dlast      the response a DAO handler sent last, until the next request
\*            is taken up
\* votesCast  per proposal, the number of 'vote cast' responses sent
\* stakers    the StakingUser collection, by walletAddress
\* sreq       the staking requests in flight
\* slast      the response a staking handler sent last, until the next
\*            request is taken up
\* nfts       the NFT collection, by _id
\* nreq       the /mint, /list, /buy and /transfer requests in flight
\* nlast      the response an NFT handler sent last, until the next request
\*            is taken up
VARIABLES clock, proposals, dreq, dlast, votesCast, stakers, sreq, slast,
          nfts, nreq, nlast

vars == <<clock, proposals, dreq, dlast, votesCast, stakers, sreq, slast,
         nfts, nreq, nlast>>
daoVars == <<proposals, dreq, dlast, votesCast>>
stakeVars == <<stakers, sreq, slast>>
nftVars == <<nfts, nreq, nlast>>

ProposalIds == 1..MaxProposals
Times == 0..MaxClock

\* ------------------------------------------------------------ wallet input
\* A wallet string of a request body, described by what the validators look
\* at: its length, whether all characters are base58, and whether it
\* decodes to a public key.  "" is a missing field.
WalletInfo ==
    [W1   |-> [chars |-> 44, base58 |-> TRUE, publicKey |-> TRUE],
     W2   |-> [chars |-> 43, base58 |-> TRUE, publicKey |-> TRUE],
     W1x  |-> [chars |-> 44, base58 |-> TRUE, publicKey |-> TRUE],
     Wbad |-> [chars |-> 8,  base58 |-> TRUE, publicKey |-> FALSE]]

WalletInputs == {"W1", "W2", "Wbad"}
VoteTypeInputs == {"for", "against", "abstain"}
\* a well-formed ObjectId that no proposal has
UnknownPid == MaxProposals + 1
\* a proposalId that is not a well-formed ObjectId
MalformedPid == 0
PidInputs == ProposalIds \cup {UnknownPid, MalformedPid}
\* lengths of the trimmed title and description: one below, at and above
\* the limits of the schema
TitleLens == {TITLE_MIN - 1, TITLE_MIN, TITLE_MAX + 1}
DescLens == {DESC_MIN - 1, DESC_MIN, DESC_MAX + 1}

\* new PublicKey(w) does not throw
PublicKeyValid(w) ==
    /\ w \in DOMAIN WalletInfo
    /\ WalletInfo[w].base58
    /\ WalletInfo[w].publicKey

\* /^[1-9A-HJ-NP-Za-km-z]{32,44}$/.test(w)
WalletRegex(w) ==
    /\ w \in DOMAIN WalletInfo
    /\ WalletInfo[w].base58
    /\ WalletInfo[w].chars >= WALLET_MIN_CHARS
    /\ WalletInfo[w].chars <= WALLET_MAX_CHARS

\* -------------------------------------------------------------- the clock
Tick ==
    /\ clock < MaxClock
    /\ clock' = clock + 1
    /\ UNCHANGED <<daoVars, stakeVars, nftVars>>

ClockBack ==
    /\ clock > 0
    /\ clock' = clock - 1
    /\ UNCHANGED <<daoVars, stakeVars, nftVars>>

\* ================================================================== DAO
NoProposal ==
    [exists |-> FALSE, titleLen |-> 0, descLen |-> 0, creatorWallet |-> "",
     votesFor |-> 0, votesAgainst |-> 0, voters |-> <<>>, expiresAt |-> 0,
     status |-> "active", createdAt |-> 0]

\* a request in flight: its inputs, the document as loaded (orig), the
\* document in the handler's memory (doc), the array find() returned (list)
\* and where the handler stands
DReq(op, pid, voteType, wallet) ==
    [op |-> op, pc |-> "found", pid |-> pid, voteType |-> voteType,
     wallet |-> wallet, orig |-> NoProposal, doc |-> NoProposal,
     isNew |-> FALSE, branch |-> "", list |-> <<>>]

\* a response: the operation, the branch of the handler that sent it, the
\* kind of answer and, for GET /proposals, the array it carries
DResp(q, kind) ==
    [op |-> q.op, branch |-> q.branch, resp |-> kind,
     list |-> IF kind = "Ok" THEN q.list ELSE <<>>]

DNone == DResp(DReq("none", 0, "", ""), "")

SeqToSet(s) == {s[i] : i \in 1..Len(s)}

One(q) == SetToBag({q})
InFlight(bag) == BagToSet(bag)

\* new Date() >= proposal.expiresAt
\* mutant: a proposal counts as expired one clock unit early
Expired_Early(p, now) == now + 1 >= p.expiresAt

Expired(p, now) == now >= p.expiresAt

\* mutant: the check looks at the creator instead of the voters
AlreadyVoted_Creator(p, w) == w = p.creatorWallet /\ p.voters # <<>>

\* proposal.voters.includes(voterWallet)
AlreadyVoted(p, w) == w \in SeqToSet(p.voters)

\* mutant: the voter is not pushed
CastVote_NoPush(p, voteType, w) ==
    [p EXCEPT !.votesFor = IF voteType = "for" THEN @ + 1 ELSE @,
              !.votesAgainst = IF voteType = "for" THEN @ ELSE @ + 1]

\* mutant: recording a vote marks the proposal active
CastVote_Reopens(p, voteType, w) ==
    [p EXCEPT !.votesFor = IF voteType = "for" THEN @ + 1 ELSE @,
              !.votesAgainst = IF voteType = "for" THEN @ ELSE @ + 1,
              !.voters = Append(@, w),
              !.status = "active"]

\* mutant: a vote counts as much as the voter has staked
CastVote_StakeWeighted(p, voteType, w) ==
    LET weight == IF w \in DOMAIN stakers /\ stakers[w].stakedAmount > 0
                  THEN stakers[w].stakedAmount ELSE 1
    IN  [p EXCEPT !.votesFor = IF voteType = "for" THEN @ + weight ELSE @,
                  !.votesAgainst = IF voteType = "for" THEN @ ELSE @ + weight,
                  !.voters = Append(@, w)]

\* votesFor / votesAgainst += 1, voters.push(voterWallet)
\* mutant: a vote extends the voting period by one clock unit
CastVote_ExtendsVoting(p, voteType, w) ==
    [p EXCEPT !.votesFor = IF voteType = "for" THEN @ + 1 ELSE @,
              !.votesAgainst = IF voteType = "for" THEN @ ELSE @ + 1,
              !.expiresAt = @ + 1,
              !.voters = Append(@, w)]

CastVote(p, voteType, w) ==
    [p EXCEPT !.votesFor = IF voteType = "for" THEN @ + 1 ELSE @,
              !.votesAgainst = IF voteType = "for" THEN @ ELSE @ + 1,
              !.voters = Append(@, w)]

\* mutant: the title has no minimum length
ProposalValid_NoTitleMin(p, now) ==
    /\ p.titleLen <= TITLE_MAX
    /\ p.descLen >= DESC_MIN /\ p.descLen <= DESC_MAX
    /\ WalletRegex(p.creatorWallet)
    /\ p.votesFor >= 0
    /\ p.votesAgainst >= 0
    /\ \A i \in 1..Len(p.voters) : WalletRegex(p.voters[i])
    /\ p.expiresAt > now
    /\ p.status \in {"active", "completed"}

\* The schema validators of DaoProposal, run by save() at instant now.
ProposalValid(p, now) ==
    /\ p.titleLen >= TITLE_MIN /\ p.titleLen <= TITLE_MAX
    /\ p.descLen >= DESC_MIN /\ p.descLen <= DESC_MAX
    /\ WalletRegex(p.creatorWallet)
    /\ p.votesFor >= 0
    /\ p.votesAgainst >= 0
    /\ \A i \in 1..Len(p.voters) : WalletRegex(p.voters[i])
    /\ p.expiresAt > now
    /\ p.status \in {"active", "completed"}

\* The update save() sends for a loaded document: $set of the scalar paths
\* whose value differs from the loaded one, $push of the pushed voters.
ProposalUpdate(cur, orig, doc) ==
    [cur EXCEPT
       !.votesFor = IF doc.votesFor # orig.votesFor THEN doc.votesFor ELSE @,
       !.votesAgainst = IF doc.votesAgainst # orig.votesAgainst
                        THEN doc.votesAgainst ELSE @,
       !.status = IF doc.status # orig.status THEN doc.status ELSE @,
       !.expiresAt = IF doc.expiresAt # orig.expiresAt
                     THEN doc.expiresAt ELSE @,
       !.creatorWallet = IF doc.creatorWallet # orig.creatorWallet
                         THEN doc.creatorWallet ELSE @,
       !.voters = @ \o SubSeq(doc.voters, Len(orig.voters) + 1, Len(doc.voters))]

\* the handler of q answers and is gone
DaoRespond(q, kind) ==
    /\ dreq' = dreq (-) One(q)
    /\ dlast' = DResp(q, kind)

\* the handler of q goes on as q2
DaoGoOn(q, q2) ==
    /\ dreq' = (dreq (-) One(q)) (+) One(q2)
    /\ dlast' = dlast

\* a request arrives: answered at once, or in flight as q2
DaoArrive(q2) ==
    /\ BagCardinality(dreq) < NumDaoReqs
    /\ dreq' = dreq (+) One(q2)
    /\ dlast' = DNone

DaoReject(q, kind) ==
    /\ BagCardinality(dreq) < NumDaoReqs
    /\ dreq' = dreq
    /\ dlast' = DResp(q, kind)

\* router.post('/proposals'): field checks, new DaoProposal({...}), save();
\* `timestamps: true` stamps createdAt as save() is called, in the turn that
\* computed expiresAt
CreateBuild(tl, dl, w) ==
    /\ LET q == DReq("create", 0, "", w)
       IN  IF ~PublicKeyValid(w)
           THEN DaoReject(q, "ValidationError")
           ELSE \E id \in ProposalIds :
                  /\ ~proposals[id].exists
                  /\ \A o \in InFlight(dreq) : ~(o.isNew /\ o.pid = id)
                  /\ DaoArrive([q EXCEPT
                       !.pc = "validate", !.pid = id, !.isNew = TRUE,
                       !.branch = "create",
                       !.doc = [NoProposal EXCEPT
                          !.exists = TRUE, !.titleLen = tl, !.descLen = dl,
                          !.creatorWallet = w, !.status = "active",
                          !.createdAt = clock,
                          !.expiresAt =
                             clock + VOTING_WINDOW_DAYS \div DAYS_PER_TICK]])
    /\ UNCHANGED <<clock, proposals, votesCast, stakeVars, nftVars>>

\* mutant: the voteType is not checked
VoteFind_AnyVoteType(pid, voteType, w) ==
    /\ LET q == DReq("vote", pid, voteType, w)
       IN  IF pid = MalformedPid
           THEN DaoReject(q, "InvalidProposalId")
           ELSE IF ~PublicKeyValid(w)
           THEN DaoReject(q, "InvalidWallet")
           ELSE DaoArrive([q EXCEPT !.orig = IF pid \in ProposalIds
                                             THEN proposals[pid]
                                             ELSE NoProposal])
    /\ UNCHANGED <<clock, proposals, votesCast, stakeVars, nftVars>>

\* router.post('/vote'): input validation, then DaoProposal.findById
VoteFind(pid, voteType, w) ==
    /\ LET q == DReq("vote", pid, voteType, w)
       IN  IF pid = MalformedPid
           THEN DaoReject(q, "InvalidProposalId")
           ELSE IF ~PublicKeyValid(w)
           THEN DaoReject(q, "InvalidWallet")
           ELSE IF voteType \notin {"for", "against"}
           THEN DaoReject(q, "InvalidVoteType")
           ELSE DaoArrive([q EXCEPT !.orig = IF pid \in ProposalIds
                                             THEN proposals[pid]
                                             ELSE NoProposal])
    /\ UNCHANGED <<clock, proposals, votesCast, stakeVars, nftVars>>

\* router.post('/vote'): the continuation of findById up to the save() call
VoteCheck(q) ==
    /\ q \in InFlight(dreq)
    /\ q.pc = "found"
    /\ LET p == q.orig
       IN  IF ~p.exists
           THEN DaoRespond(q, "NotFound")
           ELSE IF Expired(p, clock)
           THEN IF p.status = "active"
                THEN DaoGoOn(q, [q EXCEPT !.pc = "validate",
                                   !.branch = "expire",
                                   !.doc = [p EXCEPT !.status = "completed"]])
                ELSE /\ dreq' = dreq (-) One(q)
                     /\ dlast' = DResp([q EXCEPT !.branch = "closed"],
                                       "VotingClosed")
           ELSE IF AlreadyVoted(p, q.wallet)
           THEN DaoRespond(q, "DuplicateVote")
           ELSE DaoGoOn(q, [q EXCEPT !.pc = "validate", !.branch = "cast",
                              !.doc = CastVote(p, q.voteType, q.wallet)])
    /\ UNCHANGED <<clock, proposals, votesCast, stakeVars, nftVars>>

\* save(): the validation step; a ValidationError is a 400 in
\* router.post('/proposals') and a 500 in router.post('/vote')
DaoSaveValidate(q) ==
    /\ q \in InFlight(dreq)
    /\ q.pc = "validate"
    /\ IF ProposalValid(q.doc, clock)
       THEN DaoGoOn(q, [q EXCEPT !.pc = "write"])
       ELSE DaoRespond(q, IF q.op = "create" THEN "ValidationError"
                                             ELSE "ServerError")
    /\ UNCHANGED <<clock, proposals, votesCast, stakeVars, nftVars>>

\* save(): the write reaches the store, then the handler answers
DaoSaveWrite(q) ==
    /\ q \in InFlight(dreq)
    /\ q.pc = "write"
    /\ proposals' = [proposals EXCEPT ![q.pid] =
          IF q.isNew THEN q.doc ELSE ProposalUpdate(@, q.orig, q.doc)]
    /\ DaoRespond(q, CASE q.branch = "expire" -> "VotingClosed"
                       [] q.branch = "cast" -> "Ok"
                       [] OTHER -> "Created")
    /\ votesCast' = IF q.branch = "cast"
                    THEN [votesCast EXCEPT ![q.pid] = @ + 1]
                    ELSE votesCast
    /\ UNCHANGED <<clock, stakeVars, nftVars>>

\* findById() of router.post('/vote') rejects: the error is thrown into the
\* catch block
VoteLoadFails(pid, voteType, w) ==
    /\ pid # MalformedPid
    /\ PublicKeyValid(w)
    /\ voteType \in {"for", "against"}
    /\ DaoArrive([DReq("vote", pid, voteType, w) EXCEPT !.pc = "catch"])
    /\ UNCHANGED <<clock, proposals, votesCast, stakeVars, nftVars>>

\* save() passes validation and the store rejects the write: nothing is
\* written, the error is thrown into the catch block
DaoSaveFails(q) ==
    /\ q \in InFlight(dreq)
    /\ q.pc = "write"
    /\ DaoGoOn(q, [q EXCEPT !.pc = "catch"])
    /\ UNCHANGED <<clock, proposals, votesCast, stakeVars, nftVars>>

\* the catch blocks of router.post('/proposals') and router.post('/vote')
\* for an error that is no ValidationError: res.status(500)
DaoCatch(q) ==
    /\ q \in InFlight(dreq)
    /\ q.pc = "catch"
    /\ DaoRespond(q, "ServerError")
    /\ UNCHANGED <<clock, proposals, votesCast, stakeVars, nftVars>>

\* the arrays DaoProposal.find().sort({ createdAt: -1 }) may return: every
\* stored proposal once, newest first, proposals of one createdAt in any
\* order
SortedByCreatedAt ==
    LET stored == {id \in ProposalIds : proposals[id].exists}
        orders == {f \in [1..Cardinality(stored) -> stored] :
                     /\ \A i, j \in DOMAIN f : i # j => f[i] # f[j]
                     /\ \A i, j \in DOMAIN f :
                           i < j => proposals[f[i]].createdAt
                                       >= proposals[f[j]].createdAt}
    IN  {[i \in DOMAIN f |-> proposals[f[i]]] : f \in orders}

\* mutant: the listing marks the expired proposals completed in the store
ListFind_Sweeps ==
    /\ \E l \in SortedByCreatedAt :
          DaoArrive([DReq("list", 0, "", "") EXCEPT
                        !.pc = "listed", !.list = l])
    /\ proposals' = [id \in ProposalIds |->
                       IF proposals[id].exists /\ Expired(proposals[id], clock)
                       THEN [proposals[id] EXCEPT !.status = "completed"]
                       ELSE proposals[id]]
    /\ UNCHANGED <<clock, votesCast, stakeVars, nftVars>>

\* router.get('/proposals'): DaoProposal.find().sort({ createdAt: -1 })
ListFind ==
    /\ \E l \in SortedByCreatedAt :
          DaoArrive([DReq("list", 0, "", "") EXCEPT
                        !.pc = "listed", !.list = l])
    /\ UNCHANGED <<clock, proposals, votesCast, stakeVars, nftVars>>

\* router.get('/proposals'): the continuation of find(), res.json
ListApply(q) ==
    /\ q \in InFlight(dreq)
    /\ q.pc = "listed"
    /\ DaoRespond(q, "Ok")
    /\ UNCHANGED <<clock, proposals, votesCast, stakeVars, nftVars>>

DaoArrival ==
    \/ \E tl \in TitleLens, dl \in DescLens, w \in WalletInputs :
          CreateBuild(tl, dl, w)
    \/ \E pid \in PidInputs, vt \in VoteTypeInputs, w \in WalletInputs :
          VoteFind(pid, vt, w)

DaoStep(q) ==
    \/ VoteCheck(q)
    \/ DaoSaveValidate(q)
    \/ DaoSaveWrite(q)

\* ================================================================ staking
StakeWalletInputs == {"W1", "W2", "Wbad", ""}
StakeKeys == StakeWalletInputs \ {""}
\* the wallet fields of the requests on one wallet
OneWallet == {"W1", ""}
\* the wallet fields of the requests that name no valid wallet
BadWallet == {"Wbad", ""}
\* the amounts of the requests that race
UnitAmounts == {0, 1}
AmountInputs == {-1, 0, 1, 2}

NoStaker ==
    [exists |-> FALSE, stakedAmount |-> 0, rewards |-> 0,
     lastClaimed |-> 0, lastStakedOrUnstaked |-> 0]

\* a staking request in flight; nowFold is the Date.now() read by
\* calculateRewards, ret the amount the message of the answer will name, in
\* hundredths of AFOX
SReq(op, wallet, amount) ==
    [op |-> op, pc |-> "found", wallet |-> wallet, amount |-> amount,
     orig |-> NoStaker, doc |-> NoStaker, isNew |-> FALSE,
     nowFold |-> 0, ret |-> 0]

\* a response: the operation, the kind of answer and, for a 200, the amount
\* its message names and the `user` (for the GET, the view) it carries
SResp(q, kind) ==
    [op |-> q.op, resp |-> kind,
     amount |-> IF kind = "Ok" THEN q.ret ELSE 0,
     user |-> IF kind = "Ok" THEN q.doc ELSE NoStaker]

SNone == SResp(SReq("none", "", 0), "")

\* the values a later Date.now() of the same synchronous block may return
\* after one that returned n
LaterReads(n) == {m \in Times : m - n \in {0, 1}}

\* function calculateRewards(stakedAmount, lastStakedOrUnstakedDate), with
\* its Date.now() passed as now; the result in 1/RewardScale AFOX
\* mutant: the elapsed time is taken backwards
calculateRewards_Backward(stakedAmount, lastDate, now) ==
    (stakedAmount * STAKING_APR_PERCENT * RewardScale
        * ((lastDate - now) * DAYS_PER_TICK)) \div (100 * DAYS_PER_YEAR)

\* mutant: the reward compounds with the elapsed time
calculateRewards_Compound(stakedAmount, lastDate, now) ==
    (stakedAmount * STAKING_APR_PERCENT * RewardScale
        * ((now - lastDate) * (now - lastDate) * DAYS_PER_TICK))
       \div (100 * DAYS_PER_YEAR)

calculateRewards(stakedAmount, lastDate, now) ==
    (stakedAmount * STAKING_APR_PERCENT * RewardScale
        * ((now - lastDate) * DAYS_PER_TICK)) \div (100 * DAYS_PER_YEAR)

\* Number.prototype.toFixed(digits) of an amount x of 1/RewardScale AFOX:
\* the nearest multiple of 10^-digits AFOX, as a count of such multiples
\* (RewardScale has an odd factor, so no amount lies half way)
toFixed(x, digits) ==
    (2 * x * 10^digits + RewardScale) \div (2 * RewardScale)

\* the largest rewards the model lets a fold store: the accrual of
\* MaxRewardUnits AFOX over one clock unit
MaxRewards == calculateRewards(MaxRewardUnits, 0, 1)

\* mutant: rewards has no minimum
StakerValid_NoRewardsMin(u, wallet) ==
    /\ wallet # ""
    /\ u.stakedAmount >= 0

\* the schema validators of StakingUser
StakerValid(u, wallet) ==
    /\ wallet # ""
    /\ u.stakedAmount >= 0
    /\ u.rewards >= 0

\* the update save() sends for a loaded StakingUser: $set of the paths whose
\* value differs from the loaded one
StakerUpdate(cur, orig, doc) ==
    [cur EXCEPT
       !.stakedAmount = IF doc.stakedAmount # orig.stakedAmount
                        THEN doc.stakedAmount ELSE @,
       !.rewards = IF doc.rewards # orig.rewards THEN doc.rewards ELSE @,
       !.lastClaimed = IF doc.lastClaimed # orig.lastClaimed
                       THEN doc.lastClaimed ELSE @,
       !.lastStakedOrUnstaked =
            IF doc.lastStakedOrUnstaked # orig.lastStakedOrUnstaked
            THEN doc.lastStakedOrUnstaked ELSE @]

StakeRespond(q, kind) ==
    /\ sreq' = sreq (-) One(q)
    /\ slast' = SResp(q, kind)

StakeGoOn(q, q2) ==
    /\ sreq' = (sreq (-) One(q)) (+) One(q2)
    /\ slast' = slast

StakeArrive(q2) ==
    /\ BagCardinality(sreq) < NumStakeReqs
    /\ sreq' = sreq (+) One(q2)
    /\ slast' = SNone

StakeReject(q, kind) ==
    /\ BagCardinality(sreq) < NumStakeReqs
    /\ sreq' = sreq
    /\ slast' = SResp(q, kind)

\* mutant: the sign of the amount is not checked
StakeFind_NoSignCheck(w, amount) ==
    /\ LET q == SReq("stake", w, amount)
       IN  IF w = "" \/ amount = 0
           THEN StakeReject(q, "InvalidAmount")
           ELSE /\ stakers[w].stakedAmount + amount <= MaxStake
                /\ StakeArrive([q EXCEPT !.orig = stakers[w]])
    /\ UNCHANGED <<clock, stakers, daoVars, nftVars>>

\* router.post('/stake'): the check of the body, then StakingUser.findOne
StakeFind(w, amount) ==
    /\ LET q == SReq("stake", w, amount)
       IN  IF w = "" \/ amount = 0 \/ amount <= 0
           THEN StakeReject(q, "InvalidAmount")
           ELSE /\ stakers[w].stakedAmount + amount <= MaxStake
                /\ StakeArrive([q EXCEPT !.orig = stakers[w]])
    /\ UNCHANGED <<clock, stakers, daoVars, nftVars>>

\* router.post('/stake'): the continuation of findOne up to the save() call
StakeApply(q) ==
    /\ q \in InFlight(sreq)
    /\ q.op = "stake"
    /\ q.pc = "found"
    /\ \E now2 \in LaterReads(clock) :
          /\ clock' = now2
          /\ LET folded ==
                   IF ~q.orig.exists
                   THEN [NoStaker EXCEPT !.exists = TRUE,
                            !.lastClaimed = clock,
                            !.lastStakedOrUnstaked = clock]
                   ELSE [q.orig EXCEPT !.rewards = @ +
                            calculateRewards(q.orig.stakedAmount,
                                q.orig.lastStakedOrUnstaked, clock)]
             IN  /\ folded.rewards <= MaxRewards
                 /\ StakeGoOn(q, [q EXCEPT
                    !.pc = "save",
                    !.isNew = ~q.orig.exists,
                    !.nowFold = clock,
                    !.doc = [folded EXCEPT
                               !.stakedAmount = @ + q.amount,
                               !.lastStakedOrUnstaked = now2]])
    /\ UNCHANGED <<stakers, daoVars, nftVars>>

\* router.post('/claim-rewards'): the check of the body, then findOne
ClaimFind(w) ==
    /\ LET q == SReq("claim", w, 0)
       IN  IF w = ""
           THEN StakeReject(q, "ValidationError")
           ELSE StakeArrive([q EXCEPT !.orig = stakers[w]])
    /\ UNCHANGED <<clock, stakers, daoVars, nftVars>>

\* mutant: a live reward of 0 is paid out
ClaimApply_PaysZero(q) ==
    /\ q \in InFlight(sreq)
    /\ q.op = "claim"
    /\ q.pc = "found"
    /\ LET u == q.orig
           currentRewards == u.rewards + calculateRewards(u.stakedAmount,
                                            u.lastStakedOrUnstaked, clock)
       IN  IF ~u.exists
           THEN StakeRespond(q, "NotFound") /\ clock' = clock
           ELSE IF currentRewards < 0
           THEN StakeRespond(q, "NothingToClaim") /\ clock' = clock
           ELSE \E now2 \in LaterReads(clock) :
                  \E now3 \in LaterReads(now2) :
                     /\ clock' = now3
                     /\ StakeGoOn(q, [q EXCEPT
                           !.pc = "save", !.nowFold = clock,
                           !.ret = toFixed(currentRewards, 2),
                           !.doc = [u EXCEPT !.rewards = 0,
                                       !.lastClaimed = now2,
                                       !.lastStakedOrUnstaked = now3]])
    /\ UNCHANGED <<stakers, daoVars, nftVars>>

\* router.post('/claim-rewards'): the continuation up to the save() call
ClaimApply(q) ==
    /\ q \in InFlight(sreq)
    /\ q.op = "claim"
    /\ q.pc = "found"
    /\ LET u == q.orig
           currentRewards == u.rewards + calculateRewards(u.stakedAmount,
                                            u.lastStakedOrUnstaked, clock)
       IN  IF ~u.exists
           THEN StakeRespond(q, "NotFound") /\ clock' = clock
           ELSE IF currentRewards <= 0
           THEN StakeRespond(q, "NothingToClaim") /\ clock' = clock
           ELSE \E now2 \in LaterReads(clock) :
                  \E now3 \in LaterReads(now2) :
                     /\ clock' = now3
                     /\ StakeGoOn(q, [q EXCEPT
                           !.pc = "save", !.nowFold = clock,
                           !.ret = toFixed(currentRewards, 2),
                           !.doc = [u EXCEPT !.rewards = 0,
                                       !.lastClaimed = now2,
                                       !.lastStakedOrUnstaked = now3]])
    /\ UNCHANGED <<stakers, daoVars, nftVars>>

\* router.post('/unstake'): the check of the body, then findOne
UnstakeFind(w) ==
    /\ LET q == SReq("unstake", w, 0)
       IN  IF w = ""
           THEN StakeReject(q, "ValidationError")
           ELSE StakeArrive([q EXCEPT !.orig = stakers[w]])
    /\ UNCHANGED <<clock, stakers, daoVars, nftVars>>

\* mutant: an empty stake is paid out
UnstakeApply_EmptyStake(q) ==
    /\ q \in InFlight(sreq)
    /\ q.op = "unstake"
    /\ q.pc = "found"
    /\ LET u == q.orig
           folded == u.rewards + calculateRewards(u.stakedAmount,
                                     u.lastStakedOrUnstaked, clock)
       IN  IF ~u.exists
           THEN StakeRespond(q, "NotFound") /\ clock' = clock
           ELSE IF u.stakedAmount < 0
           THEN StakeRespond(q, "NothingStaked") /\ clock' = clock
           ELSE \E now2 \in LaterReads(clock) :
                  \E now3 \in LaterReads(now2) :
                     /\ clock' = now3
                     /\ StakeGoOn(q, [q EXCEPT
                           !.pc = "save", !.nowFold = clock,
                           !.ret = toFixed(u.stakedAmount * RewardScale
                                              + folded, 2),
                           !.doc = [u EXCEPT !.stakedAmount = 0,
                                       !.rewards = 0,
                                       !.lastStakedOrUnstaked = now2,
                                       !.lastClaimed = now3]])
    /\ UNCHANGED <<stakers, daoVars, nftVars>>

\* router.post('/unstake'): the continuation up to the save() call
UnstakeApply(q) ==
    /\ q \in InFlight(sreq)
    /\ q.op = "unstake"
    /\ q.pc = "found"
    /\ LET u == q.orig
           folded == u.rewards + calculateRewards(u.stakedAmount,
                                     u.lastStakedOrUnstaked, clock)
       IN  IF ~u.exists
           THEN StakeRespond(q, "NotFound") /\ clock' = clock
           ELSE IF u.stakedAmount <= 0
           THEN StakeRespond(q, "NothingStaked") /\ clock' = clock
           ELSE \E now2 \in LaterReads(clock) :
                  \E now3 \in LaterReads(now2) :
                     /\ clock' = now3
                     /\ StakeGoOn(q, [q EXCEPT
                           !.pc = "save", !.nowFold = clock,
                           !.ret = toFixed(u.stakedAmount * RewardScale
                                              + folded, 2),
                           !.doc = [u EXCEPT !.stakedAmount = 0,
                                       !.rewards = 0,
                                       !.lastStakedOrUnstaked = now2,
                                       !.lastClaimed = now3]])
    /\ UNCHANGED <<stakers, daoVars, nftVars>>

\* router.get('/:walletAddress'): StakingUser.findOne
QueryFind(w) ==
    /\ StakeArrive([SReq("query", w, 0) EXCEPT !.orig = stakers[w]])
    /\ UNCHANGED <<clock, stakers, daoVars, nftVars>>

\* router.get('/:walletAddress'): the continuation of findOne; the answer
\* carries stakedAmount, the live rewards and the two dates, or zeros and
\* nulls when there is no record
QueryApply(q) ==
    /\ q \in InFlight(sreq)
    /\ q.op = "query"
    /\ q.pc = "found"
    /\ LET u == q.orig
           currentRewards == u.rewards + calculateRewards(u.stakedAmount,
                                            u.lastStakedOrUnstaked, clock)
       IN  /\ sreq' = sreq (-) One(q)
           /\ slast' = SResp([q EXCEPT !.doc =
                            IF u.exists
                            THEN [u EXCEPT !.rewards = currentRewards]
                            ELSE NoStaker], "Ok")
    /\ UNCHANGED <<clock, stakers, daoVars, nftVars>>

\* mutant: the insert is refused when any wallet has a record
StakeSave_OneRecordStore(q) ==
    /\ q \in InFlight(sreq)
    /\ q.pc = "save"
    /\ IF ~StakerValid(q.doc, q.wallet)
       THEN /\ StakeRespond(q, "ServerError")
            /\ stakers' = stakers
       ELSE IF q.isNew
       THEN IF \E w \in StakeKeys : stakers[w].exists
            THEN /\ StakeRespond(q, "ServerError")
                 /\ stakers' = stakers
            ELSE /\ StakeRespond(q, "Ok")
                 /\ stakers' = [stakers EXCEPT ![q.wallet] = q.doc]
       ELSE /\ StakeRespond(q, "Ok")
            /\ stakers' = [stakers EXCEPT ![q.wallet] =
                              StakerUpdate(@, q.orig, q.doc)]
    /\ UNCHANGED <<clock, daoVars, nftVars>>

\* mutant: the collection has no unique index on walletAddress
StakeSave_NoUniqueIndex(q) ==
    /\ q \in InFlight(sreq)
    /\ q.pc = "save"
    /\ IF ~StakerValid(q.doc, q.wallet)
       THEN /\ StakeRespond(q, "ServerError")
            /\ stakers' = stakers
       ELSE IF q.isNew
       THEN /\ StakeRespond(q, "Ok")
            /\ stakers' = [stakers EXCEPT ![q.wallet] = q.doc]
       ELSE /\ StakeRespond(q, "Ok")
            /\ stakers' = [stakers EXCEPT ![q.wallet] =
                              StakerUpdate(@, q.orig, q.doc)]
    /\ UNCHANGED <<clock, daoVars, nftVars>>

\* mutant: an insert refused by the unique index waits for the record to go
StakeSave_WaitsOnDuplicate(q) ==
    /\ q \in InFlight(sreq)
    /\ q.pc = "save"
    /\ IF ~StakerValid(q.doc, q.wallet)
       THEN /\ StakeRespond(q, "ServerError")
            /\ stakers' = stakers
       ELSE IF q.isNew
       THEN IF stakers[q.wallet].exists
            THEN /\ StakeGoOn(q, q)
                 /\ stakers' = stakers
            ELSE /\ StakeRespond(q, "Ok")
                 /\ stakers' = [stakers EXCEPT ![q.wallet] = q.doc]
       ELSE /\ StakeRespond(q, "Ok")
            /\ stakers' = [stakers EXCEPT ![q.wallet] =
                              StakerUpdate(@, q.orig, q.doc)]
    /\ UNCHANGED <<clock, daoVars, nftVars>>

\* user.save() of the three handlers: validation, then the insert (refused
\* by the unique index on walletAddress when a record exists) or the
\* update; an error is answered by the catch block
StakeSave(q) ==
    /\ q \in InFlight(sreq)
    /\ q.pc = "save"
    /\ IF ~StakerValid(q.doc, q.wallet)
       THEN /\ StakeRespond(q, "ServerError")
            /\ stakers' = stakers
       ELSE IF q.isNew
       THEN IF stakers[q.wallet].exists
            THEN /\ StakeRespond(q, "ServerError")
                 /\ stakers' = stakers
            ELSE /\ StakeRespond(q, "Ok")
                 /\ stakers' = [stakers EXCEPT ![q.wallet] = q.doc]
       ELSE /\ StakeRespond(q, "Ok")
            /\ stakers' = [stakers EXCEPT ![q.wallet] =
                              StakerUpdate(@, q.orig, q.doc)]
    /\ UNCHANGED <<clock, daoVars, nftVars>>

\* findOne() of router.post('/stake'), '/claim-rewards' and '/unstake'
\* rejects: the error is thrown into the catch block
StakeLoadFails(op, w, amount) ==
    /\ op \in {"stake", "claim", "unstake"}
    /\ w # ""
    /\ op = "stake" => amount > 0
    /\ StakeArrive([SReq(op, w, IF op = "stake" THEN amount ELSE 0)
                       EXCEPT !.pc = "catch"])
    /\ UNCHANGED <<clock, stakers, daoVars, nftVars>>

\* user.save() rejects: nothing is written, the error is thrown into the
\* catch block
StakeSaveFails(q) ==
    /\ q \in InFlight(sreq)
    /\ q.pc = "save"
    /\ StakeGoOn(q, [q EXCEPT !.pc = "catch"])
    /\ UNCHANGED <<clock, stakers, daoVars, nftVars>>

\* mutant: the catch block of the staking handlers answers 404
StakeCatch_NotFound(q) ==
    /\ q \in InFlight(sreq)
    /\ q.pc = "catch"
    /\ StakeRespond(q, "NotFound")
    /\ UNCHANGED <<clock, stakers, daoVars, nftVars>>

\* the catch block of the staking handlers: res.status(500)
StakeCatch(q) ==
    /\ q \in InFlight(sreq)
    /\ q.pc = "catch"
    /\ StakeRespond(q, "ServerError")
    /\ UNCHANGED <<clock, stakers, daoVars, nftVars>>

\* the requests that may arrive, their wallet field drawn from ws and their
\* amount from as
StakeArrival(ws, as) ==
    \/ \E w \in ws, a \in as : StakeFind(w, a)
    \/ \E w \in ws : ClaimFind(w)
    \/ \E w \in ws : UnstakeFind(w)
    \/ \E w \in ws \ {""} : QueryFind(w)

StakeStep(q) ==
    \/ StakeApply(q)
    \/ ClaimApply(q)
    \/ UnstakeApply(q)
    \/ QueryApply(q)
    \/ StakeSave(q)

\* ------------------------------------------------------------------- init
\* ================================================================== NFT
NftIds == 1..MaxNfts
\* a well-formed ObjectId that no NFT has
UnknownNftId == MaxNfts + 1
NftIdInputs == NftIds \cup {UnknownNftId}
\* the wallet fields of the NFT requests; "W1x" is a base58 address that
\* differs from "W1" only in the case of its letters
NftWalletInputs == {"W1", "W1x", "W2", "Wbad"}
\* price: null, and a missing price of a body
NullPrice == -1
PriceInputs == {NullPrice, 0, 1, 2}

\* String.prototype.toLowerCase on the wallet strings
toLowerCase(w) ==
    CASE w = "W1"   -> "w1"
      [] w = "W1x"  -> "w1"
      [] w = "W2"   -> "w2"
      [] w = "Wbad" -> "wbad"
      [] OTHER      -> w

\* const isValidSolanaAddress = (address) => /^[1-9A-HJ-NP-Za-km-z]{32,44}$/
isValidSolanaAddress(w) == WalletRegex(w)

\* the stored fields of an NFT document that the handlers read or write;
\* isListed defaults to false and price to null
NoNft ==
    [exists |-> FALSE, owner |-> "", isListed |-> FALSE, price |-> NullPrice]

\* an NFT request in flight: its inputs, the document as loaded (orig) and
\* the document in the handler's memory (doc)
NReq(op, id, wallet, price) ==
    [op |-> op, pc |-> "found", id |-> id, wallet |-> wallet,
     price |-> price, orig |-> NoNft, doc |-> NoNft, isNew |-> FALSE]

\* a response: the operation, the kind of answer and, for a 200 or a 201,
\* the nft it carries
NResp(q, kind) ==
    [op |-> q.op, resp |-> kind, id |-> q.id,
     nft |-> IF kind \in {"Ok", "Created"} THEN q.doc ELSE NoNft]

NNone == NResp(NReq("none", 0, "", NullPrice), "")

\* the validator of the price path, `this` being the document in memory
PriceValid(isListed, value) ==
    /\ ~(isListed /\ value = NullPrice)
    /\ ~(~isListed /\ value # NullPrice)

\* validation at save(): of every path of a new document, of the modified
\* paths of a loaded one
NftValid(doc, orig, isNew) ==
    /\ (isNew \/ doc.owner # orig.owner) => isValidSolanaAddress(doc.owner)
    /\ (isNew \/ doc.price # orig.price) =>
          /\ doc.price = NullPrice \/ doc.price >= 0
          /\ PriceValid(doc.isListed, doc.price)

\* what save() of a loaded document writes: the paths modified since the load
NftUpdate(cur, orig, doc) ==
    [cur EXCEPT
       !.owner = IF doc.owner # orig.owner THEN doc.owner ELSE @,
       !.isListed = IF doc.isListed # orig.isListed THEN doc.isListed ELSE @,
       !.price = IF doc.price # orig.price THEN doc.price ELSE @]

\* the handler of q answers and is gone
NftRespond(q, kind) ==
    /\ nreq' = nreq (-) One(q)
    /\ nlast' = NResp(q, kind)

\* the handler of q goes on as q2
NftGoOn(q, q2) ==
    /\ nreq' = (nreq (-) One(q)) (+) One(q2)
    /\ nlast' = nlast

\* a request arrives: answered at once, or in flight as q2
NftArrive(q2) ==
    /\ BagCardinality(nreq) < NumNftReqs
    /\ nreq' = nreq (+) One(q2)
    /\ nlast' = NNone

NftReject(q, kind) ==
    /\ BagCardinality(nreq) < NumNftReqs
    /\ nreq' = nreq
    /\ nlast' = NResp(q, kind)

\* router.post('/mint'): tempNFT.validate() on the body, isListed false and
\* price null
MintValidate(w) ==
    /\ LET q == NReq("mint", 0, w, NullPrice)
           doc == [NoNft EXCEPT !.exists = TRUE, !.owner = w]
       IN  IF ~NftValid(doc, NoNft, TRUE)
           THEN NftReject(q, "ValidationError")
           ELSE \E id \in NftIds :
                  /\ ~nfts[id].exists
                  /\ \A o \in InFlight(nreq) : ~(o.isNew /\ o.id = id)
                  /\ NftArrive([q EXCEPT !.pc = "chain", !.id = id,
                                         !.isNew = TRUE])
    /\ UNCHANGED <<clock, nfts, daoVars, stakeVars>>

\* router.post('/mint'): createMint, the token account and mintTo on the
\* chain, then new NFT({...}) without isListed and price
MintChain(q) ==
    /\ q \in InFlight(nreq)
    /\ q.pc = "chain"
    /\ \E minted \in BOOLEAN :
          IF ~minted \/ ~PublicKeyValid(q.wallet)
          THEN NftRespond(q, "ServerError")
          ELSE NftGoOn(q, [q EXCEPT
                  !.pc = "save",
                  !.doc = [NoNft EXCEPT !.exists = TRUE,
                                        !.owner = q.wallet]])
    /\ UNCHANGED <<clock, nfts, daoVars, stakeVars>>

\* router.post('/list'): the check of the body, then NFT.findById
NftListFind(id, price, w) ==
    /\ LET q == NReq("list", id, w, price)
       IN  IF price = NullPrice \/ price <= 0 \/ ~isValidSolanaAddress(w)
           THEN NftReject(q, "InvalidInput")
           ELSE NftArrive([q EXCEPT !.orig = IF id \in NftIds
                                             THEN nfts[id] ELSE NoNft])
    /\ UNCHANGED <<clock, nfts, daoVars, stakeVars>>

\* router.post('/list'): the continuation of findById up to the save() call
NftListCheck(q) ==
    /\ q \in InFlight(nreq)
    /\ q.op = "list"
    /\ q.pc = "found"
    /\ IF ~q.orig.exists
       THEN NftRespond(q, "NotFound")
       ELSE IF toLowerCase(q.orig.owner) # toLowerCase(q.wallet)
       THEN NftRespond(q, "Forbidden")
       ELSE NftGoOn(q, [q EXCEPT
               !.pc = "save",
               !.doc = [q.orig EXCEPT !.isListed = TRUE,
                                      !.price = q.price]])
    /\ UNCHANGED <<clock, nfts, daoVars, stakeVars>>

\* router.post('/buy'): the check of the body, then NFT.findById
NftBuyFind(id, w) ==
    /\ LET q == NReq("buy", id, w, NullPrice)
       IN  IF ~isValidSolanaAddress(w)
           THEN NftReject(q, "InvalidInput")
           ELSE NftArrive([q EXCEPT !.orig = IF id \in NftIds
                                             THEN nfts[id] ELSE NoNft])
    /\ UNCHANGED <<clock, nfts, daoVars, stakeVars>>

\* router.post('/buy'): the continuation of findById up to the
\* confirmTransaction call
NftBuyCheck(q) ==
    /\ q \in InFlight(nreq)
    /\ q.op = "buy"
    /\ q.pc = "found"
    /\ IF ~q.orig.exists
       THEN NftRespond(q, "NotFound")
       ELSE IF ~q.orig.isListed
       THEN NftRespond(q, "NotListed")
       ELSE NftGoOn(q, [q EXCEPT !.pc = "confirm"])
    /\ UNCHANGED <<clock, nfts, daoVars, stakeVars>>

\* router.post('/transfer'): the check of the body, then NFT.findById
NftTransferFind(id, w) ==
    /\ LET q == NReq("transfer", id, w, NullPrice)
       IN  IF ~isValidSolanaAddress(w)
           THEN NftReject(q, "InvalidInput")
           ELSE NftArrive([q EXCEPT !.orig = IF id \in NftIds
                                             THEN nfts[id] ELSE NoNft])
    /\ UNCHANGED <<clock, nfts, daoVars, stakeVars>>

\* router.post('/transfer'): the continuation of findById up to the
\* confirmTransaction call
NftTransferCheck(q) ==
    /\ q \in InFlight(nreq)
    /\ q.op = "transfer"
    /\ q.pc = "found"
    /\ IF ~q.orig.exists
       THEN NftRespond(q, "NotFound")
       ELSE NftGoOn(q, [q EXCEPT !.pc = "confirm"])
    /\ UNCHANGED <<clock, nfts, daoVars, stakeVars>>

\* router.post('/buy') and router.post('/transfer'): the continuation of
\* confirmTransaction, whose outcome is the chain's, up to the save() call
NftConfirm(q) ==
    /\ q \in InFlight(nreq)
    /\ q.pc = "confirm"
    /\ \E outcome \in {"confirmed", "err", "throw"} :
          CASE outcome = "err" -> NftRespond(q, "ChainFailed")
            [] outcome = "throw" -> NftRespond(q, "ServerError")
            [] OTHER ->
                 NftGoOn(q, [q EXCEPT
                    !.pc = "save",
                    !.doc = [q.orig EXCEPT !.owner = q.wallet,
                                           !.isListed = FALSE,
                                           !.price = NullPrice]])
    /\ UNCHANGED <<clock, nfts, daoVars, stakeVars>>

\* await nft.save() and the answer: validation, then the insert of a new
\* document or the update of the modified paths of a loaded one
NftSave(q) ==
    /\ q \in InFlight(nreq)
    /\ q.pc = "save"
    /\ IF ~NftValid(q.doc, q.orig, q.isNew)
       THEN /\ NftRespond(q, IF q.isNew THEN "ServerError"
                                        ELSE "ValidationError")
            /\ nfts' = nfts
       ELSE IF q.isNew
       THEN /\ NftRespond(q, "Created")
            /\ nfts' = [nfts EXCEPT ![q.id] = q.doc]
       ELSE /\ NftRespond(q, "Ok")
            /\ nfts' = [nfts EXCEPT ![q.id] = NftUpdate(@, q.orig, q.doc)]
    /\ UNCHANGED <<clock, daoVars, stakeVars>>

NftArrival ==
    \/ \E w \in NftWalletInputs : MintValidate(w)
    \/ \E id \in NftIdInputs, price \in PriceInputs, w \in NftWalletInputs :
          NftListFind(id, price, w)
    \/ \E id \in NftIdInputs, w \in NftWalletInputs : NftBuyFind(id, w)
    \/ \E id \in NftIdInputs, w \in NftWalletInputs : NftTransferFind(id, w)

NftStep(q) ==
    \/ MintChain(q)
    \/ NftListCheck(q)
    \/ NftBuyCheck(q)
    \/ NftTransferCheck(q)
    \/ NftConfirm(q)
    \/ NftSave(q)

NftInit ==
    /\ nfts = [id \in NftIds |-> NoNft]
    /\ nreq = EmptyBag
    /\ nlast = NNone

Init ==
    /\ clock = 0
    /\ proposals = [id \in ProposalIds |-> NoProposal]
    /\ dreq = EmptyBag
    /\ dlast = DNone
    /\ votesCast = [id \in ProposalIds |-> 0]
    /\ stakers = [w \in StakeKeys |-> NoStaker]
    /\ sreq = EmptyBag
    /\ slast = SNone
    /\ NftInit

\* the StakingUser of a wallet that staked MaxStake at instant 0
StakedRecord ==
    [NoStaker EXCEPT !.exists = TRUE, !.stakedAmount = MaxStake]

StakedInit ==
    /\ clock = 0
    /\ proposals = [id \in ProposalIds |-> NoProposal]
    /\ dreq = EmptyBag
    /\ dlast = DNone
    /\ votesCast = [id \in ProposalIds |-> 0]
    /\ stakers = [w \in StakeKeys |->
                     IF w = "W1" THEN StakedRecord ELSE NoStaker]
    /\ sreq = EmptyBag
    /\ slast = SNone
    /\ NftInit

\* ---------------------------------------------------------- specifications
\* handlers interleave at their awaits
DaoNext ==
    \/ Tick
    \/ ClockBack
    \/ DaoArrival
    \/ \E q \in InFlight(dreq) : DaoStep(q)

\* one request at a time: a request arrives only when none is in flight
SeqDaoNext ==
    \/ Tick
    \/ ClockBack
    \/ dreq = EmptyBag /\ DaoArrival
    \/ \E q \in InFlight(dreq) : DaoStep(q)

\* handlers interleave at their awaits
StakeNext ==
    \/ Tick
    \/ StakeArrival(OneWallet, UnitAmounts)
    \/ \E q \in InFlight(sreq) : StakeStep(q)

SeqStakeNext ==
    \/ Tick
    \/ ClockBack
    \/ sreq = EmptyBag /\ StakeArrival(OneWallet, AmountInputs)
    \/ \E q \in InFlight(sreq) : StakeStep(q)

\* one request at a time, every Vote body, one CreateProposal body
VoteInputNext ==
    \/ Tick
    \/ ClockBack
    \/ dreq = EmptyBag /\ CreateBuild(TITLE_MIN, DESC_MIN, "W1")
    \/ dreq = EmptyBag
          /\ \E pid \in PidInputs, vt \in VoteTypeInputs, w \in WalletInputs :
                VoteFind(pid, vt, w)
    \/ \E q \in InFlight(dreq) : DaoStep(q)

\* the staking requests one at a time, none with a valid wallet
BadWalletStakeNext ==
    \/ Tick
    \/ ClockBack
    \/ sreq = EmptyBag /\ StakeArrival(BadWallet, AmountInputs)
    \/ \E q \in InFlight(sreq) : StakeStep(q)

\* the DAO requests one at a time, GET /proposals among them; one
\* CreateProposal body, the Vote bodies of one wallet
ListNext ==
    \/ Tick
    \/ ClockBack
    \/ dreq = EmptyBag /\ CreateBuild(TITLE_MIN, DESC_MIN, "W1")
    \/ dreq = EmptyBag
          /\ \E pid \in ProposalIds, vt \in {"for", "against"} :
                VoteFind(pid, vt, "W1")
    \/ dreq = EmptyBag /\ ListFind
    \/ \E q \in InFlight(dreq) : DaoStep(q)
    \/ \E q \in InFlight(dreq) : ListApply(q)

\* the wallets of the requests that run side by side on different keys
TwoWallets == {"W1", "W2"}

\* no request has reached the staking router, none the DAO router
StakingIdle ==
    /\ sreq = EmptyBag
    /\ slast = SNone
    /\ stakers = [w \in StakeKeys |-> NoStaker]

DaoIdle ==
    /\ dreq = EmptyBag
    /\ dlast = DNone
    /\ proposals = [id \in ProposalIds |-> NoProposal]

\* handlers interleave at their awaits, no two of them on one key: at most
\* one request in flight per wallet and per proposal; a run has the
\* requests of one router
TwoKeyNext ==
    \/ Tick
    \/ \E w \in TwoWallets :
          /\ DaoIdle
          /\ \A o \in InFlight(sreq) : o.wallet # w
          /\ StakeArrival({w}, {1})
    \/ \E q \in InFlight(sreq) : StakeStep(q)
    \/ /\ StakingIdle
       /\ CreateBuild(TITLE_MIN, DESC_MIN, "W1")
       /\ \A q \in InFlight(dreq') \ InFlight(dreq) :
             \A o \in InFlight(dreq) : o.pid # q.pid
    \/ \E pid \in ProposalIds, vt \in {"for", "against"} :
          /\ StakingIdle
          /\ \A o \in InFlight(dreq) : o.pid # pid
          /\ VoteFind(pid, vt, "W1")
    \/ \E q \in InFlight(dreq) : DaoStep(q)

\* handlers interleave at their awaits, any number of them on one key;
\* requests start before the clock reaches MaxClock, a Stake only on an
\* empty stake
LiveNext ==
    \/ Tick
    \/ /\ clock < MaxClock
       /\ DaoIdle
       /\ \/ stakers["W1"].stakedAmount = 0 /\ StakeFind("W1", 1)
          \/ ClaimFind("W1")
          \/ UnstakeFind("W1")
          \/ QueryFind("W1")
    \/ \E q \in InFlight(sreq) : StakeStep(q)
    \/ /\ clock < MaxClock
       /\ StakingIdle
       /\ \/ CreateBuild(TITLE_MIN, DESC_MIN, "W1")
          \/ \E pid \in ProposalIds : VoteFind(pid, "for", "W1")
    \/ \E q \in InFlight(dreq) : DaoStep(q)

\* the requests one at a time, of one router in a run, the store failing
\* at any load or save
StoreFailNext ==
    \/ Tick
    \/ ClockBack
    \/ sreq = EmptyBag /\ DaoIdle /\ StakeArrival(OneWallet, UnitAmounts)
    \/ /\ sreq = EmptyBag
       /\ DaoIdle
       /\ \E op \in {"stake", "claim", "unstake"} : StakeLoadFails(op, "W1", 1)
    \/ \E q \in InFlight(sreq) : StakeStep(q)
    \/ \E q \in InFlight(sreq) : StakeSaveFails(q)
    \/ \E q \in InFlight(sreq) : StakeCatch(q)
    \/ /\ dreq = EmptyBag
       /\ StakingIdle
       /\ \E w \in {"W1", "Wbad"} : CreateBuild(TITLE_MIN, DESC_MIN, w)
    \/ /\ dreq = EmptyBag
       /\ StakingIdle
       /\ \E pid \in PidInputs, vt \in VoteTypeInputs :
             VoteFind(pid, vt, "W1")
    \/ /\ dreq = EmptyBag
       /\ StakingIdle
       /\ \E pid \in PidInputs \ {MalformedPid} : VoteLoadFails(pid, "for", "W1")
    \/ \E q \in InFlight(dreq) : DaoStep(q)
    \/ \E q \in InFlight(dreq) : DaoSaveFails(q)
    \/ \E q \in InFlight(dreq) : DaoCatch(q)

\* GET /:walletAddress one request at a time, while time passes
AccrualNext ==
    \/ Tick
    \/ sreq = EmptyBag /\ \E w \in TwoWallets : QueryFind(w)
    \/ \E q \in InFlight(sreq) : QueryApply(q)

\* the staking requests one at a time, the clock never going back
ForwardStakeNext ==
    \/ Tick
    \/ sreq = EmptyBag /\ StakeArrival(OneWallet, UnitAmounts)
    \/ \E q \in InFlight(sreq) : StakeStep(q)

DaoSpec == Init /\ [][DaoNext]_vars
ForwardStakeSpec == Init /\ [][ForwardStakeNext]_vars
StoreFailSpec == Init /\ [][StoreFailNext]_vars
\* the event loop runs every continuation whose await has settled, and time
\* passes
LiveSpec ==
    /\ Init
    /\ [][LiveNext]_vars
    /\ WF_vars(Tick)
    /\ WF_vars(\E q \in InFlight(sreq) : StakeStep(q))
    /\ WF_vars(\E q \in InFlight(dreq) : DaoStep(q))
TwoKeySpec == Init /\ [][TwoKeyNext]_vars
ListSpec == Init /\ [][ListNext]_vars
BadWalletStakeSpec == Init /\ [][BadWalletStakeNext]_vars
VoteInputSpec == Init /\ [][VoteInputNext]_vars
SeqDaoSpec == Init /\ [][SeqDaoNext]_vars
StakeSpec == Init /\ [][StakeNext]_vars
SeqStakeSpec == Init /\ [][SeqStakeNext]_vars
\* W1 holds any stake, staked at any instant, with or without a stored
\* reward, and the clock reads any instant
AccrualInit ==
    /\ clock \in Times
    /\ proposals = [id \in ProposalIds |-> NoProposal]
    /\ dreq = EmptyBag
    /\ dlast = DNone
    /\ votesCast = [id \in ProposalIds |-> 0]
    /\ \E s \in 0..MaxStake, last \in Times, r \in {0, 1} :
          stakers = [w \in StakeKeys |->
                       IF w = "W1"
                       THEN [NoStaker EXCEPT !.exists = TRUE,
                               !.stakedAmount = s,
                               !.rewards = r * calculateRewards(s, 0, 1),
                               !.lastClaimed = last,
                               !.lastStakedOrUnstaked = last]
                       ELSE NoStaker]
    /\ sreq = EmptyBag
    /\ slast = SNone
    /\ NftInit

\* the DAO requests one at a time, W1 holding a stake and W2 none
StakedDaoSpec == StakedInit /\ [][SeqDaoNext]_vars
AccrualSpec == AccrualInit /\ [][AccrualNext]_vars

\* the NFT handlers interleave at their awaits
NftNext ==
    \/ NftArrival
    \/ \E q \in InFlight(nreq) : NftStep(q)

NftSpec == Init /\ [][NftNext]_vars

\* the NFT requests one at a time
SeqNftNext ==
    \/ nreq = EmptyBag /\ NftArrival
    \/ \E q \in InFlight(nreq) : NftStep(q)

SeqNftSpec == Init /\ [][SeqNftNext]_vars

\* ================================================================= claims
Answers(q) ==
    /\ BagCardinality(dreq') < BagCardinality(dreq)
    /\ CopiesIn(q, dreq') < CopiesIn(q, dreq)

NoDuplicates(s) == Cardinality(SeqToSet(s)) = Len(s)

VoteFields(p) == <<p.votesFor, p.votesAgainst, p.voters>>

\* C1: with the Vote calls made one after another, in every state and for
\* every proposal votesFor + votesAgainst is the number of entries of voters
\* and no wallet is in voters twice.
C1_VotesMatchVoters ==
    \A id \in ProposalIds :
       /\ proposals[id].votesFor + proposals[id].votesAgainst
             = Len(proposals[id].voters)
       /\ NoDuplicates(proposals[id].voters)

\* two wallets have voted, one each way, and a further vote was refused
C1_Witness ==
    \E id \in ProposalIds :
       /\ proposals[id].votesFor = 1
       /\ proposals[id].votesAgainst = 1
       /\ Len(proposals[id].voters) = 2
       /\ dlast.op = "vote"
       /\ dlast.resp \in {"DuplicateVote", "VotingClosed"}

\* C2: with Vote requests interleaving, every 'vote cast' answer stands for
\* one counter increment and one voters entry, and no wallet gets two such
\* answers on one proposal.
C2_VoteAtomic ==
    \A id \in ProposalIds :
       /\ proposals[id].votesFor + proposals[id].votesAgainst = votesCast[id]
       /\ Len(proposals[id].voters) = votesCast[id]
       /\ NoDuplicates(proposals[id].voters)

\* C5: a Vote whose handler reads now >= expiresAt answers VotingClosed and
\* leaves votesFor, votesAgainst and voters of every proposal as they were.
C5_ExpiredVoteClosed ==
    [][\A q \in InFlight(dreq) :
          ( /\ q.op = "vote"
            /\ q.orig.exists
            /\ \/ q.branch = "expire"
               \/ q.pc = "found" /\ Expired(q.orig, clock)
            /\ Answers(q) )
          => /\ dlast'.resp = "VotingClosed"
             /\ \A id \in ProposalIds :
                   VoteFields(proposals'[id]) = VoteFields(proposals[id])]_vars

\* C6: while the stored status of a proposal is completed, no step changes
\* its votesFor, votesAgainst or voters.
C6_CompletedFrozen ==
    [][\A id \in ProposalIds :
          (proposals[id].exists /\ proposals[id].status = "completed")
          => VoteFields(proposals'[id]) = VoteFields(proposals[id])]_vars

\* C7: a Vote whose handler finds the proposal not expired and the wallet
\* among the stored voters answers DuplicateVote, whatever the vote type,
\* and the step changes no proposal.
C7_DuplicateVoteRejected ==
    [][\A q \in InFlight(dreq) :
          ( /\ VoteCheck(q)
            /\ q.orig.exists
            /\ ~Expired(proposals[q.pid], clock)
            /\ q.wallet \in SeqToSet(proposals[q.pid].voters) )
          => /\ dlast' = DResp(q, "DuplicateVote")
             /\ dreq' = dreq (-) One(q)
             /\ proposals' = proposals]_vars

\* a second vote of a wallet was refused on a proposal that holds its vote
C7_Witness ==
    /\ dlast = [op |-> "vote", branch |-> "", resp |-> "DuplicateVote",
               list |-> <<>>]
    /\ \E id \in ProposalIds :
          /\ Len(proposals[id].voters) >= 1
          /\ proposals[id].status = "active"

\* C8: a proposal whose stored status is completed is completed after every
\* step: no step sets the status back to active.
C8_StatusMonotone ==
    [][\A id \in ProposalIds :
          (proposals[id].exists /\ proposals[id].status = "completed")
          => (proposals'[id].exists /\ proposals'[id].status = "completed")]_vars

\* a vote was written to a proposal after it had been completed
C8_Witness ==
    /\ dlast = [op |-> "vote", branch |-> "cast", resp |-> "Ok",
               list |-> <<>>]
    /\ \E id \in ProposalIds : proposals[id].status = "completed"

\* C9: a Vote that reads now >= expiresAt on a proposal loaded with status
\* active answers VotingClosed, the stored status is then completed and no
\* other field of the proposal has changed.
C9_ExpiredVoteCompletes ==
    [][\A q \in InFlight(dreq) :
          (q.op = "vote" /\ q.branch = "expire" /\ Answers(q))
          => /\ dlast'.resp = "VotingClosed"
             /\ proposals'[q.pid]
                   = [proposals[q.pid] EXCEPT !.status = "completed"]]_vars

SAnswers(q) ==
    /\ BagCardinality(sreq') < BagCardinality(sreq)
    /\ CopiesIn(q, sreq') < CopiesIn(q, sreq)

\* accrue(stakedAmount, elapsed, APR) of the reward accrual engine, in
\* 1/RewardScale AFOX for an elapsed time in clock units: simple interest at
\* APR / 365 per day, a negative elapsed time counting as 0
Accrue(stakedAmount, elapsed) ==
    IF elapsed <= 0 THEN 0
    ELSE (stakedAmount * STAKING_APR_PERCENT * RewardScale
             * (elapsed * DAYS_PER_TICK)) \div (100 * DAYS_PER_YEAR)

\* C3: each of the concurrent Stake(wallet, 1) calls that found no record
\* of the wallet succeeds and raises the stored stakedAmount by 1, so that
\* N of them leave stakedAmount = N.
C3_ConcurrentFirstStakes ==
    [][\A q \in InFlight(sreq) :
          (q.op = "stake" /\ q.isNew /\ q.amount = 1 /\ SAnswers(q))
          => /\ slast'.resp = "Ok"
             /\ stakers'[q.wallet].exists
             /\ stakers'[q.wallet].stakedAmount
                   = stakers[q.wallet].stakedAmount + 1]_vars

\* C4: a Stake that succeeds on an existing record raises the stored
\* stakedAmount by its amount, whatever other transitions on the wallet are
\* in flight: no increment is dropped.
C4_NoLostIncrement ==
    [][\A q \in InFlight(sreq) :
          (q.op = "stake" /\ ~q.isNew /\ q.pc = "save" /\ SAnswers(q)
             /\ slast'.resp = "Ok")
          => stakers'[q.wallet].stakedAmount
                = stakers[q.wallet].stakedAmount + q.amount]_vars

\* C10: a Stake(wallet, amount) with amount > 0 made at one instant now
\* succeeds; on an existing record it leaves rewards = old rewards +
\* accrue(old stakedAmount, now - old lastStakedOrUnstaked), stakedAmount =
\* old stakedAmount + amount and lastStakedOrUnstaked = now; on a wallet
\* without record it creates one with rewards 0, stakedAmount = amount and
\* lastStakedOrUnstaked = now.
C10_StakeFoldsThenAdds ==
    [][\A q \in InFlight(sreq) :
          ( /\ q.op = "stake"
            /\ q.pc = "save"
            /\ q.doc.lastStakedOrUnstaked = q.nowFold
            /\ SAnswers(q) )
          => LET old == stakers[q.wallet]
                 new == stakers'[q.wallet]
                 now == q.nowFold
             IN  /\ slast'.resp = "Ok"
                 /\ new.exists
                 /\ new.stakedAmount = old.stakedAmount + q.amount
                 /\ new.lastStakedOrUnstaked = now
                 /\ new.rewards =
                      IF old.exists
                      THEN old.rewards + Accrue(old.stakedAmount,
                                            now - old.lastStakedOrUnstaked)
                      ELSE 0]_vars

\* C11: a ClaimRewards(wallet) that succeeds at one instant now answers with
\* the amount old rewards + accrue(old stakedAmount, now - old
\* lastStakedOrUnstaked) and leaves rewards = 0, lastClaimed = now,
\* lastStakedOrUnstaked = now and stakedAmount as it was.
C11_ClaimPaysAndResets ==
    [][\A q \in InFlight(sreq) :
          ( /\ q.op = "claim"
            /\ q.pc = "save"
            /\ q.doc.lastClaimed = q.nowFold
            /\ q.doc.lastStakedOrUnstaked = q.nowFold
            /\ SAnswers(q)
            /\ slast'.resp = "Ok" )
          => LET old == stakers[q.wallet]
                 new == stakers'[q.wallet]
                 now == q.nowFold
             IN  /\ slast'.amount * RewardScale =
                      10^2 * (old.rewards + Accrue(old.stakedAmount,
                                           now - old.lastStakedOrUnstaked))
                 /\ new.rewards = 0
                 /\ new.lastClaimed = now
                 /\ new.lastStakedOrUnstaked = now
                 /\ new.stakedAmount = old.stakedAmount]_vars

\* C12: an Unstake(wallet) that succeeds at one instant now answers with the
\* amount old stakedAmount + old rewards + accrue(old stakedAmount, now -
\* old lastStakedOrUnstaked) and leaves stakedAmount = 0, rewards = 0,
\* lastStakedOrUnstaked = now and lastClaimed = now.
C12_UnstakePaysAndZeroes ==
    [][\A q \in InFlight(sreq) :
          ( /\ q.op = "unstake"
            /\ q.pc = "save"
            /\ q.doc.lastClaimed = q.nowFold
            /\ q.doc.lastStakedOrUnstaked = q.nowFold
            /\ SAnswers(q)
            /\ slast'.resp = "Ok" )
          => LET old == stakers[q.wallet]
                 new == stakers'[q.wallet]
                 now == q.nowFold
             IN  /\ slast'.amount * RewardScale =
                      10^2 * (old.stakedAmount * RewardScale + old.rewards
                              + Accrue(old.stakedAmount,
                                       now - old.lastStakedOrUnstaked))
                 /\ new.stakedAmount = 0
                 /\ new.rewards = 0
                 /\ new.lastStakedOrUnstaked = now
                 /\ new.lastClaimed = now]_vars

\* C13: in every state every stored StakingUser has rewards >= 0 and
\* stakedAmount >= 0, whatever Stake, ClaimRewards and Unstake calls were
\* made and however the clock moved, backwards included.
C13_StoredNonNegative ==
    \A w \in StakeKeys :
       /\ stakers[w].rewards >= 0
       /\ stakers[w].stakedAmount >= 0

\* a Stake made while the clock reads earlier than the stored
\* lastStakedOrUnstaked was refused by save()
C13_Witness ==
    /\ slast.op = "stake"
    /\ slast.resp = "ServerError"
    /\ \E w \in StakeKeys :
          /\ stakers[w].exists
          /\ stakers[w].stakedAmount > 0
          /\ clock < stakers[w].lastStakedOrUnstaked

\* C14: the accrual a Stake handler has folded into rewards is never
\* negative, and is 0 when its now is earlier than lastStakedOrUnstaked.
C14_AccrualNonNegative ==
    \A q \in InFlight(sreq) :
       (q.op = "stake" /\ q.pc = "save" /\ q.orig.exists)
       => LET accrued == q.doc.rewards - q.orig.rewards
          IN  /\ accrued >= 0
              /\ q.nowFold < q.orig.lastStakedOrUnstaked => accrued = 0

\* C15: a Query(wallet) changes no stored record; for a wallet with a record
\* it answers stakedAmount as stored and rewards + accrue(stakedAmount, now -
\* lastStakedOrUnstaked), for a wallet without one stakedAmount 0 and
\* rewards 0, and no record is created.
C15_QueryReadOnly ==
    [][\A q \in InFlight(sreq) :
          (q.op = "query" /\ SAnswers(q))
          => LET u == stakers[q.wallet]
             IN  /\ stakers' = stakers
                 /\ slast'.resp = "Ok"
                 /\ slast'.user.stakedAmount = u.stakedAmount
                 /\ slast'.user.rewards =
                      IF u.exists
                      THEN u.rewards + Accrue(u.stakedAmount,
                                          clock - u.lastStakedOrUnstaked)
                      ELSE 0]_vars

\* C16: a Stake whose amount is missing, 0 or negative answers InvalidAmount
\* and changes no stored record: none is created, an existing one is as it
\* was.
C16_StakeInvalidAmount ==
    [][\A w \in OneWallet, a \in AmountInputs :
          (a <= 0 /\ StakeFind(w, a))
          => /\ slast'.op = "stake"
             /\ slast'.resp = "InvalidAmount"
             /\ sreq' = sreq
             /\ stakers' = stakers]_vars

\* a Stake was refused for its amount while the wallet holds a stake
C16_Witness ==
    /\ slast.op = "stake"
    /\ slast.resp = "InvalidAmount"
    /\ stakers["W1"].exists
    /\ stakers["W1"].stakedAmount > 0

\* C17: a ClaimRewards answers NotFound when the wallet has no record and
\* NothingToClaim when rewards + accrue(stakedAmount, now -
\* lastStakedOrUnstaked) <= 0; either answer leaves every stored record as
\* it was.
C17_ClaimFailures ==
    [][\A q \in InFlight(sreq) :
          (q.op = "claim" /\ q.pc = "found" /\ ClaimApply(q))
          => LET u == stakers[q.wallet]
             IN  /\ ~u.exists => slast'.resp = "NotFound"
                 /\ ( /\ u.exists
                      /\ u.rewards + Accrue(u.stakedAmount,
                                        clock - u.lastStakedOrUnstaked) <= 0 )
                    => slast'.resp = "NothingToClaim"
                 /\ slast'.resp \in {"NotFound", "NothingToClaim"}
                    => stakers' = stakers]_vars

\* a ClaimRewards on a record that holds a stake was refused: nothing had
\* accrued
C17_Witness ==
    /\ slast.op = "claim"
    /\ slast.resp = "NothingToClaim"
    /\ stakers["W1"].exists
    /\ stakers["W1"].stakedAmount > 0
    /\ stakers["W1"].rewards = 0

\* C18: an Unstake answers NotFound when the wallet has no record and
\* NothingStaked when stakedAmount <= 0, and either answer leaves every
\* stored record as it was; an Unstake that succeeds leaves stakedAmount = 0,
\* so that the Unstake made next answers NothingStaked.
C18_UnstakeFailures ==
    [][\A q \in InFlight(sreq) :
          /\ (q.op = "unstake" /\ q.pc = "found" /\ UnstakeApply(q))
             => LET u == stakers[q.wallet]
                IN  /\ ~u.exists => slast'.resp = "NotFound"
                    /\ (u.exists /\ u.stakedAmount <= 0)
                       => slast'.resp = "NothingStaked"
                    /\ slast'.resp \in {"NotFound", "NothingStaked"}
                       => stakers' = stakers
          /\ (q.op = "unstake" /\ SAnswers(q) /\ slast'.resp = "Ok")
             => /\ stakers'[q.wallet].exists
                /\ stakers'[q.wallet].stakedAmount = 0]_vars

\* an Unstake was refused on the record an earlier Unstake had emptied
C18_Witness ==
    /\ slast.op = "unstake"
    /\ slast.resp = "NothingStaked"
    /\ stakers["W1"].exists
    /\ stakers["W1"].stakedAmount = 0

\* C19: a Vote that succeeds raises the counter of its voteType by 1,
\* leaves the other counter, status, expiresAt and creatorWallet as they
\* were and appends its wallet, not yet among the voters, to voters; this
\* whether or not the voter holds a stake.
C19_VoteCountsOne ==
    [][\A q \in InFlight(dreq) :
          ( /\ q.op = "vote"
            /\ q.branch = "cast"
            /\ Answers(q)
            /\ dlast'.resp = "Ok" )
          => LET old == proposals[q.pid]
                 new == proposals'[q.pid]
             IN  /\ q.wallet \notin SeqToSet(old.voters)
                 /\ new = [old EXCEPT
                       !.votesFor = IF q.voteType = "for" THEN @ + 1 ELSE @,
                       !.votesAgainst = IF q.voteType = "against"
                                        THEN @ + 1 ELSE @,
                       !.voters = Append(@, q.wallet)]]_vars

\* the wallet that holds a stake of MaxStake has voted, alone, and counts
\* for 1
C19_Witness ==
    /\ dlast = [op |-> "vote", branch |-> "cast", resp |-> "Ok",
               list |-> <<>>]
    /\ stakers["W1"].stakedAmount = MaxStake
    /\ \E id \in ProposalIds :
          /\ proposals[id].voters = <<"W1">>
          /\ proposals[id].votesFor + proposals[id].votesAgainst = 1

\* the creatorWallet of a request is a syntactically valid wallet address
WalletSyntaxValid(w) == PublicKeyValid(w) /\ WalletRegex(w)

\* the title and description lengths are within the limits
TextLengthsValid(tl, dl) ==
    /\ tl >= TITLE_MIN /\ tl <= TITLE_MAX
    /\ dl >= DESC_MIN /\ dl <= DESC_MAX

\* C20: a CreateProposal with a syntactically invalid creatorWallet is
\* never taken up, and one refused on arrival is answered ValidationError;
\* one that is taken up holds a new proposal with the
\* fields of the request, expiresAt = the instant of creation + 7 days,
\* status active, both counters 0 and no voters; answered within the voting
\* window of its creation, it answers ValidationError and stores nothing
\* when the title is outside 5..200 or the description outside 20..5000
\* characters, and otherwise answers 201 and stores that proposal; no
\* ValidationError answer comes with a change of the store.
C20_CreateProposal ==
    [][ /\ \A q \in InFlight(dreq') :
             ( /\ q.op = "create"
               /\ q.pc = "validate"
               /\ CopiesIn(q, dreq') > CopiesIn(q, dreq) )
             => /\ WalletSyntaxValid(q.wallet)
                /\ proposals' = proposals
                /\ q.doc = [NoProposal EXCEPT
                      !.exists = TRUE, !.titleLen = q.doc.titleLen,
                      !.descLen = q.doc.descLen, !.creatorWallet = q.wallet,
                      !.createdAt = clock, !.expiresAt = clock
                         + VOTING_WINDOW_DAYS \div DAYS_PER_TICK]
        /\ (dlast' # dlast /\ dlast'.op = "create" /\ dreq' = dreq)
           => dlast'.resp = "ValidationError"
        /\ ( /\ dlast' # dlast
             /\ dlast'.op = "create"
             /\ dlast'.resp = "ValidationError" )
           => proposals' = proposals
        /\ \A q \in InFlight(dreq) :
             (q.op = "create" /\ Answers(q) /\ clock < q.doc.expiresAt)
             => IF TextLengthsValid(q.doc.titleLen, q.doc.descLen)
                THEN /\ dlast'.resp = "Created"
                     /\ proposals' = [proposals EXCEPT ![q.pid] = q.doc]
                     /\ ~proposals[q.pid].exists
                ELSE /\ dlast'.resp = "ValidationError"
                     /\ proposals' = proposals ]_vars

\* a proposal was created and stored within the instant of its request
C20_Witness ==
    /\ dlast = [op |-> "create", branch |-> "create", resp |-> "Created",
               list |-> <<>>]
    /\ \E id \in ProposalIds :
          /\ proposals[id].exists
          /\ proposals[id].status = "active"
          /\ proposals[id].voters = <<>>
          /\ proposals[id].expiresAt
                = clock + VOTING_WINDOW_DAYS \div DAYS_PER_TICK

\* the proposal id of a request is the _id of a stored proposal
StoredPid(pid) == pid \in ProposalIds /\ proposals[pid].exists

VoteRefusal(pid, vt, w) ==
    IF pid = MalformedPid THEN "InvalidProposalId"
    ELSE IF ~PublicKeyValid(w) THEN "InvalidWallet"
    ELSE "InvalidVoteType"

C22_InvalidWalletRejected ==
    /\ \A q \in InFlight(sreq) :
          q.op \in {"stake", "claim", "unstake"} => WalletSyntaxValid(q.wallet)
    /\ \A w \in StakeKeys : stakers[w].exists => WalletSyntaxValid(w)


\* the array l holds the stored proposals as they are, each one once
ListsTheStore(l) ==
    /\ \A i \in DOMAIN l : l[i].exists
    /\ \A d \in {l[i] : i \in DOMAIN l}
                \cup {proposals[id] : id \in ProposalIds} :
          d.exists =>
             Cardinality({i \in DOMAIN l : l[i] = d})
                = Cardinality({id \in ProposalIds : proposals[id] = d})

\* C23: ListProposals changes no proposal: the array it reads is the stored
\* proposals as they are, an expired proposal whose status is still active
\* is in it as active, the answer carries that array, and neither step of
\* the handler changes the store
C23_ListReadOnly ==
    [][/\ \A q \in InFlight(dreq') \ InFlight(dreq) :
             q.op = "list" =>
                /\ proposals' = proposals
                /\ ListsTheStore(q.list)
       /\ \A q \in InFlight(dreq) \ InFlight(dreq') :
             q.op = "list" =>
                /\ proposals' = proposals
                /\ dlast' = [op |-> "list", branch |-> "", resp |-> "Ok",
                             list |-> q.list]]_vars

\* a listing answered with an expired proposal in it as active, the stored
\* proposal still active
C23_Witness ==
    /\ dlast.op = "list"
    /\ dlast.resp = "Ok"
    /\ \E i \in DOMAIN dlast.list :
          /\ dlast.list[i].status = "active"
          /\ Expired(dlast.list[i], clock)
          /\ \E id \in ProposalIds : proposals[id] = dlast.list[i]


\* the Stake request q would fold more reward than MaxRewards, the most the
\* model follows
BeyondMaxRewards(q) ==
    /\ q.op = "stake"
    /\ q.pc = "found"
    /\ q.orig.exists
    /\ q.orig.rewards + calculateRewards(q.orig.stakedAmount,
                            q.orig.lastStakedOrUnstaked, clock) > MaxRewards

\* with no two requests in flight on one key, the record each handler loaded
\* is still the stored one whenever the handler runs, so every handler acts
\* as it would alone; a handler always has a step to take, whatever the
\* other handlers do
KeysIsolated ==
    /\ \A q \in InFlight(sreq) :
          /\ q.orig = stakers[q.wallet]
          /\ BeyondMaxRewards(q) \/ ENABLED StakeStep(q)
    /\ \A q \in InFlight(dreq) :
          /\ q.op = "vote" =>
                q.orig = IF q.pid \in ProposalIds THEN proposals[q.pid]
                                                  ELSE NoProposal
          /\ q.op = "create" => ~proposals[q.pid].exists
          /\ ENABLED DaoStep(q)

\* a step of a handler changes no record but the one of its own key, and no
\* request but itself; no uniqueness error is answered
OtherKeysUntouched ==
    /\ \A w \in StakeKeys :
          stakers'[w] # stakers[w] =>
             \E q \in InFlight(sreq) :
                /\ q.wallet = w
                /\ CopiesIn(q, sreq') < CopiesIn(q, sreq)
                /\ sreq' = sreq (-) One(q)
                /\ slast'.resp = "Ok"
    /\ \A id \in ProposalIds :
          proposals'[id] # proposals[id] =>
             \E q \in InFlight(dreq) :
                /\ q.pid = id
                /\ dreq' = dreq (-) One(q)
    /\ \A q \in InFlight(sreq) \ InFlight(sreq') :
          q.isNew => slast'.resp = "Ok"

C25_EveryRequestFinishes == <>[](sreq = EmptyBag /\ dreq = EmptyBag)

\* two first Stakes of one wallet in flight, one stored and the other at
\* its save() of a second record for the wallet
C25_Witness ==
    /\ stakers["W1"].exists
    /\ \E q \in InFlight(sreq) :
          /\ q.op = "stake"
          /\ q.pc = "save"
          /\ q.isNew
          /\ q.wallet = "W1"


BusinessErrors ==
    {"InvalidAmount", "NotFound", "NothingToClaim", "NothingStaked",
     "DuplicateVote", "VotingClosed", "InvalidWallet", "InvalidVoteType",
     "InvalidProposalId", "ValidationError"}

\* C26: when a load or a save of the store fails during Stake,
\* ClaimRewards, Unstake, CreateProposal or Vote, the request is answered
\* with a server error, never a business error, and no step of the request,
\* from the failure to the answer, changes a stored record; a record
\* changes only in the step that answers a success
C26_StoreFailure ==
    [][/\ \A q \in InFlight(sreq) \cup InFlight(sreq') :
             q.pc = "catch" =>
                /\ stakers' = stakers
                /\ (q \notin InFlight(sreq')) =>
                      /\ slast'.resp = "ServerError"
                      /\ slast'.resp \notin BusinessErrors
       /\ \A q \in InFlight(dreq) \cup InFlight(dreq') :
             q.pc = "catch" =>
                /\ proposals' = proposals
                /\ (q \notin InFlight(dreq')) =>
                      /\ dlast'.resp = "ServerError"
                      /\ dlast'.resp \notin BusinessErrors
       /\ stakers' # stakers => slast'.resp = "Ok"
       /\ proposals' # proposals =>
             dlast'.resp \in {"Ok", "Created", "VotingClosed"}]_vars

\* a Stake on a stored record whose save() failed has been answered 500,
\* the stored record the one the handler loaded
C26_Witness ==
    /\ slast.op = "stake"
    /\ slast.resp = "ServerError"
    /\ stakers["W1"].exists
    /\ stakers["W1"].stakedAmount = 1
    /\ sreq = EmptyBag


\* C27: there is at most one StakingRecord per wallet: a save() that
\* inserts a record succeeds only when the wallet has none, also when
\* several first Stakes of the wallet run side by side; a stored record is
\* never deleted, and a record is written only under the walletAddress of
\* the request that loaded it
C27_OneRecordPerWallet ==
    [][/\ \A q \in InFlight(sreq) :
             (q.isNew /\ SAnswers(q) /\ slast'.resp = "Ok")
             => /\ ~stakers[q.wallet].exists
                /\ stakers'[q.wallet] = q.doc
       /\ \A w \in StakeKeys :
             /\ stakers[w].exists => stakers'[w].exists
             /\ stakers'[w] # stakers[w] =>
                   \E q \in InFlight(sreq) : q.wallet = w /\ SAnswers(q)]_vars

\* of two first Stakes of one wallet the first has inserted its record and
\* the second has been refused
C27_Witness ==
    /\ slast.op = "stake"
    /\ slast.resp = "ServerError"
    /\ stakers["W1"].exists
    /\ stakers["W1"].stakedAmount = 1


\* C28: the accrual is linear in the elapsed time: the reward
\* calculateRewards adds to the stored one in the answer of a Query, t >= 0
\* after lastStakedOrUnstaked, is half of what it computes for 2t, and is
\* 0 for t = 0
C28_AccrualLinear ==
    [][\A q \in InFlight(sreq) :
          ( /\ q.op = "query"
            /\ SAnswers(q)
            /\ q.orig.exists
            /\ clock >= q.orig.lastStakedOrUnstaked )
          => LET last == q.orig.lastStakedOrUnstaked
                 t == clock - last
                 r == slast'.user.rewards - q.orig.rewards
             IN  /\ 2 * r = calculateRewards(q.orig.stakedAmount,
                                 last, last + 2 * t)
                 /\ t = 0 => r = 0]_vars

\* a Query answered with a reward accrued on a stake over a time t > 0
C28_Witness ==
    /\ slast.op = "query"
    /\ slast.resp = "Ok"
    /\ slast.user.exists
    /\ slast.user.stakedAmount > 1
    /\ clock > slast.user.lastStakedOrUnstaked
    /\ slast.user.rewards > stakers["W1"].rewards


\* C29: no reward is lost or created by sequential transitions with a
\* non-decreasing clock.  For a Stake on an existing record, which pays
\* nothing: the rewards it stores are the old rewards plus the accrual on
\* the old stakedAmount over the whole time from the old
\* lastStakedOrUnstaked to the new one, the time between the instant of the
\* fold and the instant written included
C29_RewardConserved ==
    [][\A q \in InFlight(sreq) :
          ( /\ q.op = "stake"
            /\ q.pc = "save"
            /\ ~q.isNew
            /\ SAnswers(q)
            /\ slast'.resp = "Ok" )
          => LET old == stakers[q.wallet]
                 new == stakers'[q.wallet]
             IN  new.rewards =
                    old.rewards + Accrue(old.stakedAmount,
                                     new.lastStakedOrUnstaked
                                        - old.lastStakedOrUnstaked)]_vars


\* C30: the same accrued reward is never paid twice: whatever requests on
\* the wallet run side by side, the amount a ClaimRewards answers with is
\* no more than what the stored record holds for the wallet when the
\* answer is sent, its rewards plus the accrual up to then
C30_NoDoublePayment ==
    [][\A q \in InFlight(sreq) :
          ( /\ q.op = "claim"
            /\ q.pc = "save"
            /\ SAnswers(q)
            /\ slast'.resp = "Ok" )
          => LET old == stakers[q.wallet]
             IN  slast'.amount <=
                    toFixed(old.rewards
                               + Accrue(old.stakedAmount,
                                        clock - old.lastStakedOrUnstaked),
                            2)]_vars


\* C31: the accrual never decreases with the elapsed time: the live reward
\* a Query answers with on a record is no more than the live reward
\* calculateRewards gives on the same record at any later instant, so
\* successive Queries on an untouched record never see it decrease while
\* the clock does not go back
C31_AccrualMonotone ==
    [][\A q \in InFlight(sreq) :
          (q.op = "query" /\ SAnswers(q) /\ q.orig.exists)
          => /\ stakers' = stakers
             /\ \A later \in Times :
                   later >= clock =>
                      slast'.user.rewards
                         <= q.orig.rewards
                              + calculateRewards(q.orig.stakedAmount,
                                   q.orig.lastStakedOrUnstaked, later)]_vars

\* a Query answered on a stake before the clock's last instant, the record
\* untouched
C31_Witness ==
    /\ slast.op = "query"
    /\ slast.resp = "Ok"
    /\ slast.user.exists
    /\ slast.user.stakedAmount > 0
    /\ clock < MaxClock
    /\ stakers["W1"].stakedAmount = slast.user.stakedAmount
    /\ stakers["W1"].lastStakedOrUnstaked = slast.user.lastStakedOrUnstaked


\* C32: no step changes the expiresAt or the creatorWallet of a stored
\* proposal: a Vote that is written, one that is a duplicate and one that
\* finds the proposal expired leave both as CreateProposal stored them
C32_CreationFieldsKept ==
    [][\A id \in ProposalIds :
          proposals[id].exists
          => /\ proposals'[id].exists
             /\ proposals'[id].expiresAt = proposals[id].expiresAt
             /\ proposals'[id].creatorWallet = proposals[id].creatorWallet]_vars

\* a Vote has found the proposal expired and completed it, after a vote
\* was written to it
C32_Witness ==
    /\ dlast.op = "vote"
    /\ dlast.branch = "expire"
    /\ dlast.resp = "VotingClosed"
    /\ \E id \in ProposalIds :
          /\ proposals[id].status = "completed"
          /\ Len(proposals[id].voters) > 0
          /\ proposals[id].creatorWallet = "W1"
          /\ proposals[id].expiresAt
                = proposals[id].createdAt
                     + VOTING_WINDOW_DAYS \div DAYS_PER_TICK


\* C33: a proposal is never completed early: a Vote takes the branch that
\* completes a proposal only on reading an instant >= its expiresAt, the
\* stored status changes only to completed and only by the save() of such a
\* Vote on that proposal, and a proposal is stored as active when created
C33_NeverCompletedEarly ==
    [][/\ \A q \in InFlight(dreq') \ InFlight(dreq) :
             (q.branch = "expire" /\ q.pc = "validate")
             => /\ q.op = "vote"
                /\ clock >= q.orig.expiresAt
                /\ q.doc = [q.orig EXCEPT !.status = "completed"]
       /\ \A id \in ProposalIds :
             (proposals[id].exists
                /\ proposals'[id].status # proposals[id].status)
             => /\ proposals'[id].status = "completed"
                /\ \E q \in InFlight(dreq) :
                      /\ q.op = "vote"
                      /\ q.pid = id
                      /\ q.branch = "expire"
                      /\ Answers(q)
       /\ \A id \in ProposalIds :
             (~proposals[id].exists /\ proposals'[id].exists)
             => proposals'[id].status = "active"]_vars

\* a proposal was completed by a Vote, and a later Vote on it has been
\* answered that voting has ended
C33_Witness ==
    /\ dlast.op = "vote"
    /\ dlast.branch = "closed"
    /\ dlast.resp = "VotingClosed"
    /\ \E id \in ProposalIds :
          /\ proposals[id].exists
          /\ proposals[id].status = "completed"


\* C34: in every stored StakingUser, lastClaimed <= lastStakedOrUnstaked,
\* after any sequence of Stake, ClaimRewards and Unstake with a clock that
\* does not go back
C34_ClaimedNotAfterStaked ==
    \A w \in StakeKeys :
       stakers[w].exists
       => stakers[w].lastClaimed <= stakers[w].lastStakedOrUnstaked

\* C35: in every stored NFT, isListed is true exactly when price is a
\* number (not null), whatever mint, list, buy and transfer requests were
\* served
C35_ListedIffPriced ==
    \A id \in NftIds :
       nfts[id].exists => (nfts[id].isListed <=> nfts[id].price # NullPrice)

\* the handler of q sends its answer in this step
NftAnswers(q) == q \in InFlight(nreq) /\ nreq' = nreq (-) One(q)

\* a list whose sellerWallet is not the owner of the stored record is
\* rejected and writes nothing
ListOnlyByOwner ==
    \A q \in InFlight(nreq) :
       (/\ NftAnswers(q)
        /\ q.op = "list"
        /\ q.id \in NftIds
        /\ nfts[q.id].exists
        /\ q.wallet # nfts[q.id].owner)
       => nlast'.resp # "Ok" /\ nfts' = nfts

\* a buy of a stored record that is not listed is rejected and writes
\* nothing
BuyOnlyWhileListed ==
    \A q \in InFlight(nreq) :
       (/\ NftAnswers(q)
        /\ q.op = "buy"
        /\ q.id \in NftIds
        /\ nfts[q.id].exists
        /\ ~nfts[q.id].isListed)
       => nlast'.resp # "Ok" /\ nfts' = nfts

\* a buy that succeeds leaves the buyer as the owner and the NFT unlisted
BuyHandsOver ==
    \A q \in InFlight(nreq) :
       (/\ NftAnswers(q)
        /\ q.op = "buy"
        /\ nlast'.resp = "Ok")
       => /\ nfts'[q.id].owner = q.wallet
          /\ ~nfts'[q.id].isListed

\* C36: an NFT is listed only by its recorded owner and bought only while
\* listed: a list by another wallet and a buy of an unlisted record are
\* rejected with the record unchanged, and a successful buy makes the buyer
\* the owner and leaves the NFT unlisted, so that one listing is sold once
C36_OwnerListsListedSells ==
    [][ListOnlyByOwner /\ BuyOnlyWhileListed /\ BuyHandsOver]_vars

\* C36: the parts of the claim, one at a time
C36_ListOnlyByOwner == [][ListOnlyByOwner]_vars
C36_BuyOnlyWhileListed == [][BuyOnlyWhileListed]_vars
C36_BuyHandsOver == [][BuyHandsOver]_vars

====
